---- MODULE Spec2Model ----
(***************************************************************************)
(* Model of the MCP gateway: the Redis-backed session store                *)
(* (internal/mcp/session/redis.go), the streamable-HTTP handlers           *)
(* (internal/core/streamable.go) and the supervisor with its hot reload    *)
(* (cmd/mcp-gateway/main.go).                                              *)
(*                                                                         *)
(* Strings that the code cuts or joins (URL paths) are sequences of their  *)
(* segments: "/a/mcp" is <<"/a", "/mcp">>, "" is <<>> and "/" is <<"/">>.  *)
(* A Go channel is an entry of the heap `queue`, named by the number of    *)
(* the connection that made it, so that two connections sharing a channel  *)
(* and two connections with a channel each are different states.           *)
(***************************************************************************)
EXTENDS Integers, Sequences, FiniteSets, TLC

\* ---------------------------------------------------------------- bounds

\* Messages the run may Send.
MaxSend == 2
\* Messages the run may Send where queues are to overflow.
MaxBurst == 4
\* Payloads in flight on one replica's subscription.
MaxChan == 1
\* Capacity of a connection's channel: make(chan *Message, 100) in the code,
\* scaled down so that a full channel is reachable.
QueueCap == 2
\* Store calls of the run at which the Redis client returns an error.
MaxFail == 1
\* Reloads the run may start.
MaxReload == 2
\* Changes of the stored configuration: its versions are 0..MaxCfg.
MaxCfg == 1
\* Backend clients the run may construct.
MaxClients == 3

\* ------------------------------------------------------------ value sets

None == "none"

\* Session ids a client can name, or uuid.New() can return.
Ids == {"s1", "s2"}

\* Gateway replicas on the shared store.  Replica 1 is the process whose
\* supervisor is modelled; replica 2 is a peer seen through the store.
Replicas == {1, 2}

\* SSE handler invocations that can be in progress at once.
Readers == {1}

\* URL paths on which handleMCP is mounted.
Paths == {<<"/mcp">>, <<"/a", "/mcp">>}

Events == {"message", "ping"}

\* strings.TrimSuffix(path, "/mcp")
TrimSuffixMcp(path) ==
    IF Len(path) > 0 /\ path[Len(path)] = "/mcp"
    THEN SubSeq(path, 1, Len(path) - 1)
    ELSE path

\* The prefix handleMCP stores in the session meta.
PrefixOf(path) ==
    LET prefix == TrimSuffixMcp(path)
    IN  IF prefix = <<>> THEN <<"/">> ELSE prefix

\* A meta whose prefix is the path without its "/mcp", also when that is empty.
NewMetaRawPrefix(id, path) ==
    [ID |-> id, Prefix |-> TrimSuffixMcp(path), Type |-> "streamable"]

\* session.Meta as Register receives it (CreatedAt is not modelled).
NewMeta(id, path) == [ID |-> id, Prefix |-> PrefixOf(path), Type |-> "streamable"]

\* The zero Meta, also standing for "no value under this key".
NoMeta == [ID |-> "", Prefix |-> <<>>, Type |-> ""]

\* &Meta{ID: id}, the meta of a delete payload.
IdMeta(id) == [ID |-> id, Prefix |-> <<>>, Type |-> ""]

\* A nil *Message.
NoMsg == [Event |-> "", Data |-> 0]

\* No entry in a connections map.
NoConn == [meta |-> NoMeta, q |-> 0]

\* The numbers that name connection objects: as many as can be referenced at
\* once, by the replicas' connection maps and by the SSE handlers.
ConnNums == 1..(Cardinality(Ids) * Cardinality(Replicas) + Cardinality(Readers))

\* ----------------------------------------------------------------- state

VARIABLES
    kv,           \* Redis: key "session:<id>" -> meta, or NoMeta
    ids,          \* Redis: the set "session:ids"
    chan,         \* per replica: payloads published on the topic, not yet handled
    connections,  \* per replica: RedisStore.connections, id -> connection or NoConn
    queue,        \* heap of channels: connection number -> queued messages
    sse,          \* per reader: the handleGet invocation and its connection
    out,          \* per reader: what the drain loop has written to the stream
    sent,         \* messages sent so far
    fails,        \* store calls that met a Redis error so far
    deleted,      \* ids unregistered with success and not added to the set since
    last,         \* the latest finished request: what the client saw
    call,         \* the tools/call request in progress, between its two table reads
    proc,         \* the gateway process (replica 1)
    pidFile,      \* whether the PID file exists
    httpServer,   \* the global httpServer: the router it serves and its state
    tables,       \* Server.prefixToTools, toolMap, prefixToServerConfig: the
                  \* configuration version each was built from
    storeCfg,     \* version of the documents in the configuration store
    rl,           \* handleReload: where it stands, and the configuration it merged
    reloads,      \* reloads started so far
    lastReload,   \* how the latest handleReload ended
    liveAtReload, \* ids live when the latest reload began, not unregistered since
    peerUp,       \* whether the peer replica (replica 2) runs
    store,        \* the session store the gateway is configured with:
                  \* "redis" (shared) or "memory" (local)
    dropped,      \* "queue is full" warnings logged so far
    post,         \* per admin client: its POST /_reload on the internal listener
    shutdown,     \* how the two Shutdown calls of a SIGINT or SIGTERM went
    inv,          \* per handler goroutine: its InvokeStreamableTool in progress
    clients       \* backend clients made so far: the calls each has received

storeVars == <<kv, ids, chan, connections, queue>>
sessVars  == <<kv, ids, chan, connections, queue, sse, out, sent, dropped, fails, deleted>>
supVars   == <<proc, pidFile, httpServer, tables, storeCfg, rl, reloads, lastReload,
               liveAtReload, peerUp, store, post, shutdown>>
proxyVars == <<inv, clients>>
vars == <<kv, ids, chan, connections, queue, sse, out, sent, dropped, fails, deleted, last,
          call, proc, pidFile, httpServer, tables, storeCfg, rl, reloads, lastReload,
          liveAtReload, peerUp, store, post, shutdown, inv, clients>>

IdleReader == [pc |-> "idle", r |-> 1, id |-> "", meta |-> NoMeta, q |-> 0,
               ctxDone |-> FALSE]

NoRequest == [op |-> None, r |-> 1, hdr |-> "", id |-> "", method |-> None,
              err |-> "-", code |-> None, http |-> <<>>, snap |-> {}, isError |-> FALSE,
              gone |-> FALSE, sid |-> "", path |-> <<>>, bad |-> "-", exec |-> "-",
              tools |-> <<>>]

IdleCall == [pc |-> "idle", r |-> 1, hdr |-> "", id |-> "", prefix |-> <<>>,
             name |-> "", toolVer |-> 0]

IdleReload == [pc |-> "idle", newCfg |-> 0]

\* Clients of the internal listener.
Admins == {1, 2}

NoShutdown == [public |-> "-", innerCtx |-> "-", inner |-> "-"]

\* Handler goroutines that can be inside InvokeStreamableTool at once.
Invokers == {1, 2}

IdleInvoke == [pc |-> "idle", client |-> 0, result |-> "-"]

\* The state once the servers are started, whatever the session store.
InitRest ==
    /\ kv = [i \in Ids |-> NoMeta]
    /\ ids = {}
    /\ chan = [r \in Replicas |-> <<>>]
    /\ connections = [r \in Replicas |-> [i \in Ids |-> NoConn]]
    /\ queue = [c \in ConnNums |-> <<>>]
    /\ sse = [k \in Readers |-> IdleReader]
    /\ out = [k \in Readers |-> <<>>]
    /\ sent = 0
    /\ fails = 0
    /\ deleted = {}
    /\ last = NoRequest
    /\ call = IdleCall
    /\ proc = "running"
    /\ pidFile = TRUE
    /\ httpServer = [router |-> 0, state |-> "serving"]
    /\ tables = [prefixToTools |-> 0, toolMap |-> 0, prefixToServerConfig |-> 0]
    /\ storeCfg = 0
    /\ rl = IdleReload
    /\ reloads = 0
    /\ lastReload = None
    /\ liveAtReload = {}
    /\ peerUp = FALSE
    /\ dropped = 0
    /\ post = [a \in Admins |-> "idle"]
    /\ shutdown = NoShutdown
    /\ inv = [n \in Invokers |-> IdleInvoke]
    /\ clients = [c \in 1..MaxClients |-> <<>>]

\* A gateway configured with the shared store.
Init == InitRest /\ store = "redis"

\* A gateway configured with either store.
InitStores == InitRest /\ store \in {"redis", "memory"}

\* ------------------------------------------------- the shared session store

\* The steps of a store call at which the Redis client can return an error.
RegisterFails   == {"none", "set", "sadd", "publish"}
GetFails        == {"none", "sismember", "get"}
UnregisterFails == {"none", "sismember", "del", "srem", "publish"}
SendFails       == {"none", "publish"}

\* The process of replica r runs.
Alive(r) == IF r = 1 THEN proc = "running" ELSE peerUp

\* The Redis client returns an error at step `fail` of a store call.
Fails(fail) ==
    /\ fail # "none" => fails < MaxFail
    /\ fails' = IF fail = "none" THEN fails ELSE fails + 1

\* A subscription has room for one more payload (bounds the model only).
ChanRoom == \A r \in Replicas : Len(chan[r]) < MaxChan

\* client.Publish: the subscription of every running replica receives the payload.
Publish(c, update) ==
    [r \in Replicas |-> IF Alive(r) THEN Append(c[r], update) ELSE c[r]]

Update(action, meta, msg) == [Action |-> action, Meta |-> meta, Message |-> msg]

\* The connection objects something still references.
Referenced(conns, readers) ==
    {conns[r][i].q : r \in Replicas, i \in Ids} \cup {readers[k].q : k \in Readers}

\* The number of a new connection object: one that names no live object.
NewConn ==
    CHOOSE c \in ConnNums \ Referenced(connections, sse) :
        \A d \in ConnNums \ Referenced(connections, sse) : c <= d

\* Garbage collection: the channel of an object nothing references is gone.
Collect(qs, conns, readers) ==
    [c \in ConnNums |-> IF c \in Referenced(conns, readers) THEN qs[c] ELSE <<>>]

\* RedisStore.Register: the state it leaves, for the step `fail` that fails.
Register(r, meta, fail) ==
    /\ kv' = IF fail = "set" THEN kv ELSE [kv EXCEPT ![meta.ID] = meta]
    /\ ids' = IF fail \in {"set", "sadd"} THEN ids ELSE ids \cup {meta.ID}
    /\ IF fail \in {"set", "sadd"}
       THEN UNCHANGED <<connections, queue>>
       ELSE /\ connections' = [connections EXCEPT
                                 ![r][meta.ID] = [meta |-> meta, q |-> NewConn]]
            /\ queue' = Collect([queue EXCEPT ![NewConn] = <<>>], connections', sse)
    /\ chan' = IF fail = "none"
               THEN Publish(chan, Update("create", meta, NoMsg))
               ELSE chan

\* The error Register returns.
RegisterErr(fail) == IF fail = "none" THEN "nil" ELSE "StoreErr"

\* A Get that checks neither the set nor the key: it fails only with Redis.
GetErrNoCheck(id, fail) == IF fail = "none" THEN "nil" ELSE "StoreErr"

\* The error RedisStore.Get returns for `id`.
GetErr(id, fail) ==
    IF fail = "sismember" THEN "StoreErr"
    ELSE IF id \notin ids THEN "NotFound"
    ELSE IF fail = "get" THEN "StoreErr"
    ELSE IF kv[id] = NoMeta THEN "NotFound"
    ELSE "nil"

\* The connection RedisStore.Get returns on replica r when it succeeds: a new
\* object holding the stored meta and a channel of its own.
GetConn(r, id) == [meta |-> kv[id], q |-> NewConn]

\* The error RedisStore.Unregister returns for `id`.
UnregisterErr(id, fail) ==
    IF fail = "sismember" THEN "StoreErr"
    ELSE IF id \notin ids THEN "NotFound"
    ELSE IF fail \in {"del", "srem", "publish"} THEN "StoreErr"
    ELSE "nil"

\* Unregister that drops the local entry and publishes the delete, but
\* leaves the key and the set member in Redis.
UnregisterLocalOnly(r, id, fail) ==
    /\ connections' = [connections EXCEPT ![r][id] = NoConn]
    /\ chan' = IF UnregisterErr(id, fail) = "nil"
               THEN Publish(chan, Update("delete", IdMeta(id), NoMsg))
               ELSE chan
    /\ queue' = Collect(queue, connections', sse)
    /\ UNCHANGED <<kv, ids>>

\* RedisStore.Unregister: the state it leaves.
Unregister(r, id, fail) ==
    LET member  == fail # "sismember" /\ id \in ids
        didDel  == member /\ fail # "del"
        didSRem == didDel /\ fail # "srem"
        didPub  == didSRem /\ fail # "publish"
    IN  /\ connections' = IF id \in Ids
                          THEN [connections EXCEPT ![r][id] = NoConn]
                          ELSE connections
        /\ kv' = IF didDel THEN [kv EXCEPT ![id] = NoMeta] ELSE kv
        /\ ids' = IF didSRem THEN ids \ {id} ELSE ids
        /\ chan' = IF didPub
                   THEN Publish(chan, Update("delete", IdMeta(id), NoMsg))
                   ELSE chan
        /\ queue' = Collect(queue, connections', sse)

\* RedisConnection.Send: publishes the message with the connection's meta.
Send(meta, msg, fail) ==
    /\ chan' = IF fail = "none" THEN Publish(chan, Update("event", meta, msg)) ELSE chan
    /\ UNCHANGED <<kv, ids, connections, queue>>

\* A payload that is not valid JSON: json.Unmarshal fails on it.
Garbage == [Action |-> "invalid", Meta |-> NoMeta, Message |-> NoMsg]

\* What handleUpdates does with a payload that decodes: every case of its
\* switch reads update.Meta.ID, and the event case reads update.Message.Event
\* after the push or in its warning, so a payload without "meta", or an event
\* without "message", makes it dereference a nil pointer.
Panics(update) ==
    \/ update.Action \in {"create", "update", "delete", "event"} /\ update.Meta = NoMeta
    \/ update.Action = "event" /\ update.Message = NoMsg

\* A subscriber that keeps a local cache: a delete message removes the
\* local connection entry of its id.
handleUpdatesEvictsOnDelete(r) ==
    /\ chan[r] # <<>>
    /\ LET update == Head(chan[r])
           conn   == connections[r][update.Meta.ID]
       IN  /\ chan' = [chan EXCEPT ![r] = Tail(@)]
           /\ connections' = IF update.Action = "delete"
                              THEN [connections EXCEPT ![r][update.Meta.ID] = NoConn]
                              ELSE connections
           /\ IF update.Action = "event" /\ conn # NoConn
              THEN IF Len(queue[conn.q]) < QueueCap
                   THEN /\ queue' = [queue EXCEPT ![conn.q] = Append(@, update.Message)]
                        /\ UNCHANGED dropped
                   ELSE /\ dropped' = dropped + 1
                        /\ UNCHANGED queue
              ELSE /\ queue' = Collect(queue, connections', sse)
                   /\ UNCHANGED dropped
    /\ UNCHANGED <<kv, ids>>

\* A subscriber whose push waits for room in the connection's queue.
handleUpdatesBlocking(r) ==
    /\ chan[r] # <<>>
    /\ LET update == Head(chan[r])
           conn   == connections[r][update.Meta.ID]
       IN  /\ chan' = [chan EXCEPT ![r] = Tail(@)]
           /\ IF update.Action = "event" /\ conn # NoConn
              THEN /\ Len(queue[conn.q]) < QueueCap
                   /\ queue' = [queue EXCEPT ![conn.q] = Append(@, update.Message)]
                   /\ UNCHANGED dropped
              ELSE UNCHANGED <<queue, dropped>>
    /\ UNCHANGED <<kv, ids, connections>>

\* A subscriber that makes room in a full queue by dropping its oldest message.
handleUpdatesDropOldest(r) ==
    /\ chan[r] # <<>>
    /\ LET update == Head(chan[r])
           conn   == connections[r][update.Meta.ID]
       IN  /\ chan' = [chan EXCEPT ![r] = Tail(@)]
           /\ IF update.Action = "event" /\ conn # NoConn
              THEN IF Len(queue[conn.q]) < QueueCap
                   THEN /\ queue' = [queue EXCEPT ![conn.q] = Append(@, update.Message)]
                        /\ UNCHANGED dropped
                   ELSE /\ dropped' = dropped + 1
                        /\ queue' = [queue EXCEPT
                                       ![conn.q] = Append(Tail(@), update.Message)]
              ELSE UNCHANGED <<queue, dropped>>
    /\ UNCHANGED <<kv, ids, connections>>

\* One turn of the loop of RedisStore.handleUpdates on replica r, for a
\* payload it gets through.
handleUpdates(r) ==
    /\ chan[r] # <<>>
    /\ ~Panics(Head(chan[r]))
    /\ LET update == Head(chan[r])
           conn   == connections[r][update.Meta.ID]
       IN  /\ chan' = [chan EXCEPT ![r] = Tail(@)]
           /\ IF update.Action = "event" /\ conn # NoConn
              THEN IF Len(queue[conn.q]) < QueueCap
                   THEN /\ queue' = [queue EXCEPT ![conn.q] = Append(@, update.Message)]
                        /\ UNCHANGED dropped
                   ELSE /\ dropped' = dropped + 1
                        /\ UNCHANGED queue
              ELSE UNCHANGED <<queue, dropped>>
    /\ UNCHANGED <<kv, ids, connections>>

\* -------------------------------------------------- the local session store

\* The local store is one map id -> connection in the process of replica 1,
\* held here in connections[1]; it uses neither Redis nor the topic.

\* The error the local store's Register returns: Conflict when another meta
\* holds the id.
LocalRegisterErr(meta) ==
    IF connections[1][meta.ID] # NoConn /\ connections[1][meta.ID].meta # meta
    THEN "Conflict"
    ELSE "nil"

\* The local store's Register: a live id keeps its connection and its queue.
LocalRegister(meta) ==
    /\ IF connections[1][meta.ID] = NoConn
       THEN /\ connections' = [connections EXCEPT
                                 ![1][meta.ID] = [meta |-> meta, q |-> NewConn]]
            /\ queue' = Collect([queue EXCEPT ![NewConn] = <<>>], connections', sse)
       ELSE UNCHANGED <<connections, queue>>
    /\ UNCHANGED <<kv, ids, chan>>

\* The error the local store's Get returns.
LocalGetErr(id) ==
    IF id \in Ids /\ connections[1][id] # NoConn THEN "nil" ELSE "NotFound"

\* The connection the local store's Get returns: the one in the map.
LocalGetConn(id) == connections[1][id]

\* Send on a connection of the local store: a non-blocking push onto the
\* connection's queue, dropped with a warning when the queue is full.
LocalSend(meta, msg) ==
    /\ LET conn == connections[1][meta.ID]
       IN  IF conn = NoConn
           THEN UNCHANGED <<queue, dropped>>
           ELSE IF Len(queue[conn.q]) < QueueCap
           THEN /\ queue' = [queue EXCEPT ![conn.q] = Append(@, msg)]
                /\ UNCHANGED dropped
           ELSE /\ dropped' = dropped + 1
                /\ UNCHANGED queue
    /\ UNCHANGED <<kv, ids, chan, connections>>

\* ------------------------------------- the store behind Server.sessions

\* s.sessions.Register on replica r.
StoreRegister(r, meta, fail) ==
    IF store = "memory"
    THEN r = 1 /\ fail = "none" /\ LocalRegister(meta)
    ELSE Register(r, meta, fail)

StoreRegisterErr(meta, fail) ==
    IF store = "memory" THEN LocalRegisterErr(meta) ELSE RegisterErr(fail)

\* s.sessions.Get on replica r.
StoreGetErr(id, fail) ==
    IF store = "memory" THEN LocalGetErr(id) ELSE GetErr(id, fail)

StoreGetConn(r, id) ==
    IF store = "memory" THEN LocalGetConn(id) ELSE GetConn(r, id)

\* conn.Send on a connection that holds `meta`.
StoreSend(meta, msg, fail) ==
    IF store = "memory"
    THEN fail = "none" /\ LocalSend(meta, msg)
    ELSE Send(meta, msg, fail) /\ UNCHANGED dropped

\* ------------------------------------------------ configuration snapshots

\* Tool names a tools/call can carry.
ToolNames == {"echo", "extra"}

\* The tools that version v of the stored configuration defines.
CfgTools(v) == IF v = 0 THEN {"echo"} ELSE {"echo", "extra"}

\* The prefixes that version v of the stored configuration routes.
CfgPrefixes(v) == IF v % 2 = 0 THEN {<<"/">>, <<"/a">>} ELSE {<<"/">>}

\* The tools that version v of the stored configuration allows on a prefix:
\* the tools of the server its router mounts there.
CfgAllowed(v, prefix) ==
    IF prefix = <<"/">> THEN CfgTools(v) ELSE CfgTools(v) \ {"echo"}

\* The tools that version v of the stored configuration lists for a prefix,
\* in the order of its documents.
CfgToolList(v, prefix) ==
    SelectSeq(<<"echo", "extra">>, LAMBDA t : t \in CfgAllowed(v, prefix))

\* ------------------------------------------------------------ HTTP handlers

\* The public listener of replica r accepts requests.
Serving(r) == Alive(r) /\ (r = 1 => httpServer.state = "serving")

\* The router of replica r has a route for the path (the peer's is not modelled).
Routed(r, path) == r # 1 \/ PrefixOf(path) \in CfgPrefixes(httpServer.router)

\* uuid.New(): an id that nothing knows.
Fresh(id) ==
    /\ id \notin ids
    /\ kv[id] = NoMeta
    /\ \A r \in Replicas : connections[r][id] = NoConn

\* The session id handleMCP works with: the header, or a new uuid.
SessionID(hdr, id) == IF hdr = "" THEN Fresh(id) ELSE id = hdr

\* A response: the request it answers (op, replica, Mcp-Session-Id header,
\* session id used, method), the error the store call returned ("-" when the
\* handler made none), the JSON-RPC error code and the HTTP statuses written.
\* `gone` notes whether the id stood unregistered when the request came in.
\* `sid` is the Mcp-Session-Id header of the response: handleMCP sets it to
\* the new uuid when the request carried none.  `path` is the URL path of an
\* initialize or a tools/list, `bad` the part of the request that did not unmarshal and
\* `exec` how executeTool ended, where the handler got that far.  `tools` is
\* the tool list of a tools/list result.
Resp(op, r, hdr, id, method, err, code, http) ==
    [op |-> op, r |-> r, hdr |-> hdr, id |-> id, method |-> method, err |-> err,
     code |-> code, http |-> http, snap |-> {}, isError |-> FALSE,
     gone |-> id \in deleted,
     sid |-> IF op = "POST" /\ hdr = "" THEN id ELSE "",
     path |-> <<>>, bad |-> "-", exec |-> "-", tools |-> <<>>]

\* sendSuccessResponse and sendToolExecutionError: the reply names the
\* session of the connection in its Mcp-Session-Id header.
WithSid(resp) == [resp EXCEPT !.sid = resp.id]

Bodies == {"ok", "badjson", "badparams"}

\* No response is on its way to a client.  `last` holds a response only in the
\* state that follows the handler's step; the step that hands it to the
\* client comes before any other, which loses no behaviour of the program,
\* since nothing reads `last`.
Quiet == last = NoRequest

\* The response reaches the client.
Return ==
    /\ last # NoRequest
    /\ last' = NoRequest
    /\ UNCHANGED <<sessVars, call, supVars, proxyVars>>

\* handleMCP, POST with method initialize.
PostInitialize(r, hdr, path, body, fail) ==
    /\ Quiet
    /\ Serving(r) /\ Routed(r, path)
    /\ IF body = "badjson"
       THEN /\ last' = Resp("POST", r, hdr, "", "initialize", "-", "ParseError", <<400>>)
            /\ fail = "none"
            /\ UNCHANGED <<storeVars, deleted, liveAtReload, fails>>
       ELSE \E id \in Ids :
            /\ SessionID(hdr, id)
            /\ Fails(fail)
            /\ fail = "none" => ChanRoom
            /\ StoreRegister(r, NewMeta(id, path), fail)
            /\ deleted' = IF fail \in {"set", "sadd"} THEN deleted ELSE deleted \ {id}
            /\ UNCHANGED liveAtReload
            /\ last' =
                 IF StoreRegisterErr(NewMeta(id, path), fail) # "nil"
                 THEN [Resp("POST", r, hdr, id, "initialize",
                            StoreRegisterErr(NewMeta(id, path), fail),
                            "InternalError", <<500>>) EXCEPT !.path = path]
                 ELSE IF body = "badparams"
                 THEN [Resp("POST", r, hdr, id, "initialize", "nil", "InvalidParams", <<400>>)
                         EXCEPT !.path = path, !.bad = "params"]
                 ELSE [WithSid(Resp("POST", r, hdr, id, "initialize", "nil", None, <<200>>))
                         EXCEPT !.path = path]
    /\ UNCHANGED <<sse, out, sent, dropped, call, proc, pidFile, httpServer, tables, storeCfg,
                   rl, reloads, lastReload, peerUp, store, post, shutdown, proxyVars>>

\* A tools/list that lists every tool of the tool table, whatever the prefix.
ListToolsOfToolMap(prefix) ==
    SelectSeq(<<"echo", "extra">>, LAMBDA t : t \in CfgTools(tables.toolMap))

\* handleMCPRequest, tools/list: s.prefixToTools[prefix], or no tools when
\* the table has no entry for the prefix.
ListTools(prefix) ==
    IF prefix \in CfgPrefixes(tables.prefixToTools)
    THEN CfgToolList(tables.prefixToTools, prefix)
    ELSE <<>>

\* A dispatch that takes the prefix from the URL path of the request.
DispatchPrefixOfPath(conn, path) == PrefixOf(path)

\* The prefix with which handleMCPRequest reads s.prefixToTools and
\* s.prefixToServerConfig: conn.Meta().Prefix, whatever the path of the request.
DispatchPrefix(conn, path) == conn.meta.Prefix

OtherMethods == {"notifications/initialized", "tools/list", "tools/call", "unknown"}

\* handleMCP, POST with another method, up to the first table read of a
\* tools/call (replica 1; the peer's dispatch tables are not modelled).
PostOther(hdr, path, method, body, name, fail) ==
    /\ Quiet
    /\ Serving(1) /\ Routed(1, path)
    /\ IF body = "badjson"
       THEN /\ last' = Resp("POST", 1, hdr, "", method, "-", "ParseError", <<400>>)
            /\ fail = "none"
            /\ UNCHANGED <<call, fails>>
       ELSE \E id \in Ids :
            /\ SessionID(hdr, id)
            /\ Fails(fail)
            /\ LET err  == StoreGetErr(id, fail)
                   conn == StoreGetConn(1, id)
               IN  IF err # "nil"
                   THEN /\ last' = Resp("POST", 1, hdr, id, method, err,
                                        "InvalidRequest", <<400>>)
                        /\ UNCHANGED call
                   ELSE CASE method = "notifications/initialized" ->
                               /\ last' = Resp("POST", 1, hdr, id, method, "nil", None, <<202>>)
                               /\ UNCHANGED call
                          [] method = "tools/list" ->
                               /\ last' = [WithSid(Resp("POST", 1, hdr, id, method, "nil",
                                                         None, <<200>>))
                                             EXCEPT !.snap = {tables.prefixToTools},
                                                    !.tools = ListTools(DispatchPrefix(conn, path)),
                                                    !.path = path]
                               /\ UNCHANGED call
                          [] method = "tools/call" /\ body = "badparams" ->
                               /\ last' = [Resp("POST", 1, hdr, id, method, "nil",
                                                "InvalidParams", <<400>>)
                                             EXCEPT !.bad = "params"]
                               /\ UNCHANGED call
                          [] method = "tools/call" /\ body # "badparams" ->
                               /\ call.pc = "idle"
                               /\ call' = [pc |-> "lookup", r |-> 1, hdr |-> hdr, id |-> id,
                                           prefix |-> DispatchPrefix(conn, path),
                                           name |-> name,
                                           toolVer |-> 0]
                               /\ UNCHANGED last
                          [] OTHER ->
                               /\ last' = Resp("POST", 1, hdr, id, method, "nil",
                                               "MethodNotFound", <<404>>)
                               /\ UNCHANGED call
    /\ UNCHANGED <<kv, ids, chan, connections, queue, sse, out, sent, dropped, deleted, supVars, proxyVars>>

\* A tools/call that goes on to the arguments without looking the name up.
CallLookupAnyTool(argsOK) ==
    /\ Quiet
    /\ call.pc = "lookup" /\ Alive(1)
    /\ IF ~argsOK
       THEN /\ last' = [Resp("POST", 1, call.hdr, call.id, "tools/call", "nil",
                             "InvalidParams", <<400>>)
                          EXCEPT !.snap = {tables.toolMap}, !.bad = "args"]
            /\ call' = IdleCall
       ELSE /\ call' = [call EXCEPT !.pc = "config", !.toolVer = tables.toolMap]
            /\ UNCHANGED last
    /\ UNCHANGED <<sessVars, supVars, proxyVars>>

\* handleMCPRequest, tools/call: the lookup in s.toolMap and the arguments.
CallLookup(argsOK) ==
    /\ Quiet
    /\ call.pc = "lookup" /\ Alive(1)
    /\ IF call.name \notin CfgTools(tables.toolMap)
       THEN /\ last' = [Resp("POST", 1, call.hdr, call.id, "tools/call", "nil",
                             "MethodNotFound", <<404>>) EXCEPT !.snap = {tables.toolMap}]
            /\ call' = IdleCall
       ELSE IF ~argsOK
       THEN /\ last' = [Resp("POST", 1, call.hdr, call.id, "tools/call", "nil",
                             "InvalidParams", <<400>>)
                          EXCEPT !.snap = {tables.toolMap}, !.bad = "args"]
            /\ call' = IdleCall
       ELSE /\ call' = [call EXCEPT !.pc = "config", !.toolVer = tables.toolMap]
            /\ UNCHANGED last
    /\ UNCHANGED <<sessVars, supVars, proxyVars>>

\* sendToolExecutionError: the failure of the tool travels in a successful
\* JSON-RPC result, as a CallToolResult with isError true.
sendToolExecutionError(resp) == [resp EXCEPT !.isError = TRUE]

\* A tools/call whose handler returns the failure of executeTool to
\* handleMCP, which reports it as the protocol error InternalError.
CallExecuteReturnsErr(execOK) ==
    /\ Quiet
    /\ call.pc = "config" /\ Alive(1)
    /\ LET snap == {call.toolVer, tables.prefixToServerConfig}
           ok   == WithSid(Resp("POST", 1, call.hdr, call.id, "tools/call", "nil",
                                None, <<200>>))
           bad  == Resp("POST", 1, call.hdr, call.id, "tools/call", "nil",
                        "InternalError", <<500>>)
       IN  IF call.prefix \notin CfgPrefixes(tables.prefixToServerConfig)
           THEN last' = [bad EXCEPT !.snap = snap]
           ELSE last' = [(IF execOK THEN ok ELSE bad)
                           EXCEPT !.snap = snap,
                                  !.exec = IF execOK THEN "ok" ELSE "failed"]
    /\ call' = IdleCall
    /\ UNCHANGED <<sessVars, supVars, proxyVars>>

\* handleMCPRequest, tools/call: the lookup in s.prefixToServerConfig, the
\* execution of the tool and the response.
CallExecute(execOK) ==
    /\ Quiet
    /\ call.pc = "config" /\ Alive(1)
    /\ LET snap == {call.toolVer, tables.prefixToServerConfig}
           ok   == WithSid(Resp("POST", 1, call.hdr, call.id, "tools/call", "nil",
                                None, <<200>>))
       IN  IF call.prefix \notin CfgPrefixes(tables.prefixToServerConfig)
           THEN last' = [Resp("POST", 1, call.hdr, call.id, "tools/call", "nil",
                              "InternalError", <<500>>) EXCEPT !.snap = snap]
           ELSE last' = [(IF execOK THEN ok ELSE sendToolExecutionError(ok))
                           EXCEPT !.snap = snap,
                                  !.exec = IF execOK THEN "ok" ELSE "failed"]
    /\ call' = IdleCall
    /\ UNCHANGED <<sessVars, supVars, proxyVars>>

\* handleMCP, DELETE.
Delete(r, hdr, fail) ==
    /\ Quiet
    /\ Serving(r)
    /\ IF hdr = ""
       THEN /\ last' = Resp("DELETE", r, hdr, "", None, "-", "InvalidRequest", <<400>>)
            /\ fail = "none"
            /\ UNCHANGED <<storeVars, deleted, liveAtReload, fails>>
       ELSE /\ UnregisterErr(hdr, fail) = "nil" => ChanRoom
            /\ Fails(fail)
            /\ Unregister(r, hdr, fail)
            /\ deleted' = IF UnregisterErr(hdr, fail) = "nil"
                          THEN deleted \cup {hdr}
                          ELSE deleted
            /\ liveAtReload' = IF hdr \in ids' THEN liveAtReload ELSE liveAtReload \ {hdr}
            /\ last' =
                 IF UnregisterErr(hdr, fail) # "nil"
                 THEN Resp("DELETE", r, hdr, hdr, None, UnregisterErr(hdr, fail),
                           "InvalidRequest", <<400>>)
                 ELSE Resp("DELETE", r, hdr, hdr, None, "nil", None, <<200>>)
    /\ UNCHANGED <<sse, out, sent, dropped, call, proc, pidFile, httpServer, tables, storeCfg,
                   rl, reloads, lastReload, peerUp, store, post, shutdown, proxyVars>>

\* Server.shutdownCh is closed: nothing in main.go closes it.
ShutdownSignalled == FALSE

\* handleGet up to the drain loop.
GetSSE(k, r, accept, hdr, fail) ==
    /\ Quiet
    /\ Serving(r)
    /\ sse[k].pc = "idle"
    /\ IF ~accept
       THEN /\ last' = Resp("GET", r, hdr, hdr, None, "-", "InvalidRequest", <<406>>)
            /\ fail = "none"
            /\ UNCHANGED <<sse, out, queue, fails>>
       ELSE /\ Fails(fail)
            /\ IF StoreGetErr(hdr, fail) # "nil"
               THEN /\ last' = Resp("GET", r, hdr, hdr, None, StoreGetErr(hdr, fail),
                                    IF hdr = "" THEN "ConnectionClosed" ELSE "RequestTimeout",
                                    (IF hdr = "" THEN <<400>> ELSE <<>>) \o <<404>>)
                    /\ UNCHANGED <<sse, out, queue>>
               ELSE /\ sse' = [sse EXCEPT ![k] =
                                 [pc |-> "drain", r |-> r, id |-> hdr,
                                  meta |-> StoreGetConn(r, hdr).meta, q |-> StoreGetConn(r, hdr).q,
                                  ctxDone |-> FALSE]]
                    /\ queue' = [queue EXCEPT ![StoreGetConn(r, hdr).q] =
                                        IF store = "memory" THEN @ ELSE <<>>]
                    /\ out' = [out EXCEPT ![k] = <<>>]
                    /\ last' = Resp("GET", r, hdr, hdr, None, "nil", None, <<200>>)
    /\ UNCHANGED <<kv, ids, chan, connections, sent, dropped, deleted, call, supVars, proxyVars>>

\* What one turn of the drain loop writes for an event.
Frames(event) ==
    (IF event.Event = "message" THEN <<[kind |-> "frame", msg |-> event]>> ELSE <<>>)
        \o <<[kind |-> "raw", msg |-> event]>>

\* A drain loop that takes the newest queued message instead of the oldest.
SSELoopNewestFirst(k) ==
    /\ Quiet
    /\ sse[k].pc = "drain" /\ Alive(sse[k].r)
    /\ LET q     == queue[sse[k].q]
           ready == (IF q # <<>> THEN {"event"} ELSE {})
                    \cup (IF sse[k].ctxDone THEN {"ctx"} ELSE {})
                    \cup (IF ShutdownSignalled THEN {"shutdown"} ELSE {})
       IN  \E c \in ready :
             IF c = "event"
             THEN /\ out' = [out EXCEPT ![k] = @ \o Frames(q[Len(q)])]
                  /\ queue' = [queue EXCEPT ![sse[k].q] = SubSeq(q, 1, Len(q) - 1)]
                  /\ UNCHANGED sse
             ELSE /\ sse' = [sse EXCEPT ![k] = IdleReader]
                  /\ queue' = Collect(queue, connections, sse')
                  /\ UNCHANGED out
    /\ UNCHANGED <<kv, ids, chan, connections, sent, dropped, fails, deleted, last, call, supVars, proxyVars>>

\* One turn of the drain loop of handleGet: the select takes a ready case.
SSELoop(k) ==
    /\ Quiet
    /\ sse[k].pc = "drain" /\ Alive(sse[k].r)
    /\ LET ready == (IF queue[sse[k].q] # <<>> THEN {"event"} ELSE {})
                    \cup (IF sse[k].ctxDone THEN {"ctx"} ELSE {})
                    \cup (IF ShutdownSignalled THEN {"shutdown"} ELSE {})
       IN  \E c \in ready :
             IF c = "event"
             THEN /\ out' = [out EXCEPT ![k] = @ \o Frames(Head(queue[sse[k].q]))]
                  /\ queue' = [queue EXCEPT ![sse[k].q] = Tail(@)]
                  /\ UNCHANGED sse
             ELSE /\ sse' = [sse EXCEPT ![k] = IdleReader]
                  /\ queue' = Collect(queue, connections, sse')
                  /\ UNCHANGED out
    /\ UNCHANGED <<kv, ids, chan, connections, sent, dropped, fails, deleted, last, call, supVars, proxyVars>>

\* The client of an SSE stream goes away: the request context is cancelled.
Disconnect(k) ==
    /\ Quiet
    /\ sse[k].pc = "drain" /\ ~sse[k].ctxDone
    /\ sse' = [sse EXCEPT ![k].ctxDone = TRUE]
    /\ UNCHANGED <<storeVars, out, sent, dropped, fails, deleted, last, call, supVars, proxyVars>>

\* The metas of the connections some holder can call Send on.
HeldMetas ==
    {connections[r][i].meta : r \in Replicas, i \in Ids} \cup {sse[k].meta : k \in Readers}

\* Send on a connection holding `meta`.
SendMsg(meta, ev, fail) ==
    /\ Quiet
    /\ meta \in HeldMetas /\ meta # NoMeta
    /\ fail = "none" => ChanRoom
    /\ Fails(fail)
    /\ StoreSend(meta, [Event |-> ev, Data |-> sent + 1], fail)
    /\ sent' = sent + 1
    /\ UNCHANGED <<sse, out, deleted, last, call, supVars, proxyVars>>

\* The subscriber goroutine of replica r handles one payload.
Subscriber(r) ==
    /\ Quiet
    /\ Alive(r)
    /\ handleUpdates(r)
    /\ UNCHANGED <<sse, out, sent, fails, deleted, last, call, supVars, proxyVars>>

\* The payloads another client of the Redis topic can publish: no JSON, a
\* create without meta, an event without meta, an event without message.
ForeignPayloads ==
    {Garbage,
     Update("create", NoMeta, NoMsg),
     Update("event", NoMeta, [Event |-> "message", Data |-> 0]),
     Update("event", NewMeta("s1", <<"/mcp">>), NoMsg)}

\* Another client of the Redis topic publishes a payload.
ForeignPublish(update) ==
    /\ Quiet
    /\ ChanRoom
    /\ chan' = Publish(chan, update)
    /\ UNCHANGED <<kv, ids, connections, queue, sse, out, sent, dropped, fails, deleted,
                   last, call, supVars, proxyVars>>

\* The peer replica starts: NewRedisStore subscribes it to the topic.
PeerStart ==
    /\ Quiet
    /\ ~peerUp
    /\ peerUp' = TRUE
    /\ UNCHANGED <<sessVars, last, call, proc, pidFile, httpServer, tables, storeCfg, rl,
                   reloads, lastReload, liveAtReload, store, post, shutdown, proxyVars>>

\* ------------------------------------------------- supervisor and reload

\* The SSE streams open on the public server of replica 1: each lasts until
\* its drain loop returns.
OpenStreams == \E k \in Readers : sse[k].pc = "drain" /\ sse[k].r = 1

\* http.Server.Shutdown waits for these: the handlers still running on the
\* public server of replica 1.
ActiveConns == OpenStreams \/ call.pc # "idle"

\* What the end of the process takes with it: its handlers, its
\* subscription, its connection map and its listeners.
ExitEffects ==
    /\ sse' = [k \in Readers |-> IF sse[k].r = 1 THEN IdleReader ELSE sse[k]]
    /\ call' = IdleCall
    /\ chan' = [chan EXCEPT ![1] = <<>>]
    /\ connections' = [connections EXCEPT ![1] = [i \in Ids |-> NoConn]]
    /\ httpServer' = [httpServer EXCEPT !.state = "closed"]
    /\ queue' = Collect(queue, connections', sse')
    /\ post' = [a \in Admins |-> IF post[a] = "answered" THEN "answered" ELSE "idle"]

\* The subscriber goroutine of replica r takes a payload on which
\* handleUpdates panics: the panic is not recovered and ends the process.
SubscriberPanic(r) ==
    /\ Quiet
    /\ Alive(r)
    /\ chan[r] # <<>> /\ Panics(Head(chan[r]))
    /\ IF r = 1
       THEN /\ proc' = "panicked"
            /\ ExitEffects
            /\ UNCHANGED peerUp
       ELSE /\ peerUp' = FALSE
            /\ chan' = [chan EXCEPT ![r] = <<>>]
            /\ connections' = [connections EXCEPT ![r] = [i \in Ids |-> NoConn]]
            /\ sse' = [k \in Readers |-> IF sse[k].r = r THEN IdleReader ELSE sse[k]]
            /\ queue' = Collect(queue, connections', sse')
            /\ UNCHANGED <<proc, call, httpServer, post>>
    /\ UNCHANGED <<kv, ids, out, sent, dropped, fails, deleted, last, pidFile, tables,
                   storeCfg, rl, reloads, lastReload, liveAtReload, store, shutdown,
                   proxyVars>>

\* An operator changes the documents in the configuration store.
ConfigChange ==
    /\ Quiet
    /\ storeCfg < MaxCfg
    /\ storeCfg' = storeCfg + 1
    /\ UNCHANGED <<sessVars, last, call, proc, pidFile, httpServer, tables, rl, reloads,
                   lastReload, liveAtReload, peerUp, store, post, shutdown, proxyVars>>

LoadOutcomes == {"ok", "listErr", "mergeErr"}

\* The handler of POST /_reload on the internal listener: it sends on
\* reloadChan, which has no buffer, so it waits there until run's loop
\* receives.
ReloadPost(a) ==
    /\ Quiet
    /\ proc = "running"
    /\ post[a] \in {"idle", "answered"}
    /\ post' = [post EXCEPT ![a] = "sending"]
    /\ UNCHANGED <<sessVars, last, call, proc, pidFile, httpServer, tables, storeCfg, rl,
                   reloads, lastReload, liveAtReload, peerUp, store, shutdown, proxyVars>>

\* A handler of POST /_reload that does not wait for run's loop: it answers
\* once it has queued its trigger.
ReloadPostAnswerEarly(a) ==
    /\ Quiet
    /\ proc = "running"
    /\ post[a] \in {"sending", "accepted"}
    /\ post' = [post EXCEPT ![a] = "answered"]
    /\ UNCHANGED <<sessVars, last, call, proc, pidFile, httpServer, tables, storeCfg, rl,
                   reloads, lastReload, liveAtReload, peerUp, store, shutdown, proxyVars>>

\* The handler of POST /_reload, its send done: 200 "reload triggered".
ReloadPostAnswer(a) ==
    /\ Quiet
    /\ proc = "running"
    /\ post[a] = "accepted"
    /\ post' = [post EXCEPT ![a] = "answered"]
    /\ UNCHANGED <<sessVars, last, call, proc, pidFile, httpServer, tables, storeCfg, rl,
                   reloads, lastReload, liveAtReload, peerUp, store, shutdown, proxyVars>>

Triggers == {"updateCh", "reloadChan"}

\* A supervisor that takes a trigger whether or not a handleReload runs.
ReloadLoadConcurrent(trigger, outcome) ==
    /\ Quiet
    /\ proc = "running"
    /\ reloads < MaxReload
    /\ reloads' = reloads + 1
    /\ liveAtReload' = ids
    /\ \E a \in Admins :
          /\ trigger = "reloadChan" => post[a] = "sending"
          /\ IF outcome = "ok"
             THEN /\ rl' = [pc |-> "merged", newCfg |-> storeCfg]
                  /\ lastReload' = "running"
                  /\ post' = IF trigger = "reloadChan"
                             THEN [post EXCEPT ![a] = "accepted"]
                             ELSE post
                  /\ UNCHANGED <<proc, sse, call, chan, connections, httpServer, queue>>
             ELSE /\ proc' = "exited"
                  /\ lastReload' = "fatal"
                  /\ ExitEffects
                  /\ UNCHANGED rl
    /\ UNCHANGED <<kv, ids, out, sent, dropped, fails, deleted, last, pidFile, tables,
                   storeCfg, peerUp, store, shutdown, proxyVars>>

\* run's loop, back at its select once handleReload has returned, takes a tick
\* of updateCh or the send of a POST /_reload handler on reloadChan, and
\* handleReload lists and merges the documents.
ReloadLoad(trigger, outcome) ==
    /\ Quiet
    /\ proc = "running" /\ rl.pc = "idle"
    /\ reloads < MaxReload
    /\ reloads' = reloads + 1
    /\ liveAtReload' = ids
    /\ \E a \in Admins :
          /\ trigger = "reloadChan" => post[a] = "sending"
          /\ IF outcome = "ok"
             THEN /\ rl' = [pc |-> "merged", newCfg |-> storeCfg]
                  /\ lastReload' = "running"
                  /\ post' = IF trigger = "reloadChan"
                             THEN [post EXCEPT ![a] = "accepted"]
                             ELSE post
                  /\ UNCHANGED <<proc, sse, call, chan, connections, httpServer, queue>>
             ELSE /\ proc' = "exited"
                  /\ lastReload' = "fatal"
                  /\ ExitEffects
                  /\ UNCHANGED rl
    /\ UNCHANGED <<kv, ids, out, sent, dropped, fails, deleted, last, pidFile, tables,
                   storeCfg, peerUp, store, shutdown, proxyVars>>

BuildOutcomes == {"ok", "routesErr", "updateErr"}

\* The installation of a merged configuration in the Server's three tables.
UpdateConfig(cfg) ==
    tables' = [prefixToTools |-> cfg, toolMap |-> cfg, prefixToServerConfig |-> cfg]

\* handleReload under serverLock: RegisterRoutes on a new router, UpdateConfig.
ReloadBuild(outcome) ==
    /\ Quiet
    /\ proc = "running" /\ rl.pc = "merged"
    /\ IF outcome = "ok"
       THEN /\ UpdateConfig(rl.newCfg)
            /\ rl' = [rl EXCEPT !.pc = "updated"]
            /\ UNCHANGED lastReload
       ELSE /\ rl' = IdleReload
            /\ lastReload' = outcome
            /\ UNCHANGED tables
    /\ UNCHANGED <<sessVars, last, call, proc, pidFile, httpServer, storeCfg, reloads,
                   liveAtReload, peerUp, store, post, shutdown, proxyVars>>

\* handleReload calls httpServer.Shutdown: the old listener is closed at once.
ReloadShutdownBegin ==
    /\ Quiet
    /\ proc = "running" /\ rl.pc = "updated"
    /\ httpServer' = [httpServer EXCEPT !.state = "closing"]
    /\ rl' = [rl EXCEPT !.pc = "closing"]
    /\ UNCHANGED <<sessVars, last, call, proc, pidFile, tables, storeCfg, reloads,
                   lastReload, liveAtReload, peerUp, store, post, shutdown, proxyVars>>

\* Shutdown returns nil: no handler is left; the new server takes over.
ReloadShutdownDone ==
    /\ Quiet
    /\ proc = "running" /\ rl.pc = "closing"
    /\ ~ActiveConns
    /\ httpServer' = [router |-> rl.newCfg, state |-> "serving"]
    /\ rl' = IdleReload
    /\ lastReload' = "ok"
    /\ UNCHANGED <<sessVars, last, call, proc, pidFile, tables, storeCfg, reloads,
                   liveAtReload, peerUp, store, post, shutdown, proxyVars>>

\* Shutdown returns the deadline error after 5 s with a stream still open:
\* handleReload logs it and returns.  (A tools/call is taken to answer within
\* the 5 s, so that Shutdown waits for it.)
ReloadShutdownTimeout ==
    /\ Quiet
    /\ proc = "running" /\ rl.pc = "closing"
    /\ OpenStreams
    /\ httpServer' = [httpServer EXCEPT !.state = "closed"]
    /\ rl' = IdleReload
    /\ lastReload' = "shutdownErr"
    /\ UNCHANGED <<sessVars, last, call, proc, pidFile, tables, storeCfg, reloads,
                   liveAtReload, peerUp, store, post, shutdown, proxyVars>>

\* SIGHUP: run registers only SIGINT and SIGTERM, so the Go runtime's default
\* applies and the process ends, with no deferred call run.
SigHup ==
    /\ Quiet
    /\ proc = "running"
    /\ proc' = "killed"
    /\ ExitEffects
    /\ UNCHANGED <<kv, ids, out, sent, dropped, fails, deleted, last, pidFile, tables,
                   storeCfg, rl, reloads, lastReload, liveAtReload, peerUp, store, shutdown, proxyVars>>

\* The handlers of the internal listener that are still running.
InnerActive == \E a \in Admins : post[a] \in {"sending", "accepted"}

\* The two Shutdown calls of run's quit branch, which share one context of
\* 5 s.  The public server's returns the deadline error when a stream is
\* still open, and run then cancels the context; the internal server's is
\* called next, with what is left of the context, and returns its error when
\* a handler is still running and the context is done or the handler waits
\* on reloadChan, where nothing receives any more.
Shutdowns ==
    [public   |-> IF OpenStreams THEN "timeout" ELSE "ok",
     innerCtx |-> IF OpenStreams THEN "done" ELSE "live",
     inner    |-> IF InnerActive /\ (OpenStreams \/ \E a \in Admins : post[a] = "sending")
                  THEN "err"
                  ELSE "ok"]

\* SIGINT or SIGTERM taken by run's loop: both listeners are shut down, run
\* returns and its deferred RemovePID runs.
Quit ==
    /\ Quiet
    /\ proc = "running" /\ rl.pc = "idle"
    /\ proc' = "stopped"
    /\ pidFile' = FALSE
    /\ shutdown' = Shutdowns
    /\ ExitEffects
    /\ UNCHANGED <<kv, ids, out, sent, dropped, fails, deleted, last, tables, storeCfg,
                   rl, reloads, lastReload, liveAtReload, peerUp, store, proxyVars>>

\* A client's request to replica 1 while its public listener accepts nothing.
Refused(op, hdr, method) ==
    /\ Quiet
    /\ ~Serving(1)
    /\ last' = Resp(op, 1, hdr, hdr, method, "refused", None, <<>>)
    /\ UNCHANGED <<sessVars, call, supVars, proxyVars>>

\* --------------------------------------------- streamable backend proxy

\* The client that client.NewClient returns: an object of its own.
NewClient == CHOOSE c \in 1..MaxClients : clients[c] = <<>> /\ \A d \in 1..(c - 1) : clients[d] # <<>>

\* InvokeStreamableTool up to client.NewClient: the arguments, the
\* templates of the environment, the transport and its Start, each of which
\* can fail and end the invocation before a client exists.
InvokeStart(n, ok) ==
    /\ inv[n].pc = "idle"
    /\ IF ok
       THEN /\ \E c \in 1..MaxClients : clients[c] = <<>>
            /\ inv' = [inv EXCEPT ![n] = [pc |-> "initialize", client |-> NewClient,
                                          result |-> "-"]]
            /\ clients' = [clients EXCEPT ![NewClient] = <<"NewClient">>]
       ELSE /\ inv' = [inv EXCEPT ![n] = [IdleInvoke EXCEPT !.result = "err"]]
            /\ UNCHANGED clients
    /\ UNCHANGED <<sessVars, last, call, supVars>>

\* An invocation that returns the error of Initialize without closing its client.
InvokeInitializeLeaks(n, ok) ==
    /\ inv[n].pc = "initialize"
    /\ IF ok
       THEN /\ clients' = [clients EXCEPT ![inv[n].client] = Append(@, "Initialize")]
            /\ inv' = [inv EXCEPT ![n].pc = "call"]
       ELSE /\ clients' = [clients EXCEPT ![inv[n].client] = Append(@, "InitializeErr")]
            /\ inv' = [inv EXCEPT ![n] = [IdleInvoke EXCEPT !.result = "err"]]
    /\ UNCHANGED <<sessVars, last, call, supVars>>

\* InvokeStreamableTool: mcpClient.Initialize; on its error the function
\* returns and the deferred mcpClient.Close runs.
InvokeInitialize(n, ok) ==
    /\ inv[n].pc = "initialize"
    /\ IF ok
       THEN /\ clients' = [clients EXCEPT ![inv[n].client] = Append(@, "Initialize")]
            /\ inv' = [inv EXCEPT ![n].pc = "call"]
       ELSE /\ clients' = [clients EXCEPT ![inv[n].client] =
                                  @ \o <<"InitializeErr", "Close">>]
            /\ inv' = [inv EXCEPT ![n] = [IdleInvoke EXCEPT !.result = "err"]]
    /\ UNCHANGED <<sessVars, last, call, supVars>>

\* InvokeStreamableTool: mcpClient.CallTool, the return of its result or
\* error, and the deferred mcpClient.Close.
InvokeCallTool(n, ok) ==
    /\ inv[n].pc = "call"
    /\ clients' = [clients EXCEPT ![inv[n].client] =
                       @ \o <<IF ok THEN "CallTool" ELSE "CallToolErr", "Close">>]
    /\ inv' = [inv EXCEPT ![n] = [IdleInvoke EXCEPT !.result = IF ok THEN "ok" ELSE "err"]]
    /\ UNCHANGED <<sessVars, last, call, supVars>>

\* ---------------------------------------------------------- specifications

\* Tool invocations on a streamable backend, from two handler goroutines,
\* with every step failing or not.
NextInvoke ==
    \/ \E n \in Invokers, ok \in BOOLEAN : InvokeStart(n, ok)
    \/ \E n \in Invokers, ok \in BOOLEAN : InvokeInitialize(n, ok)
    \/ \E n \in Invokers, ok \in BOOLEAN : InvokeCallTool(n, ok)

SpecInvoke == Init /\ [][NextInvoke]_vars

HdrIds == Ids \cup {""}

\* Every step of a store call at which an error can be injected.
AnyFail == RegisterFails \cup GetFails \cup UnregisterFails \cup SendFails

\* The steps of the session and streaming plane: the requests clients make
\* with the given Mcp-Session-Id headers on the given mount paths with the
\* given methods and bodies, the Redis errors `fs` that can meet them, and the
\* goroutines that serve them.
SessionNext(hdrs, paths, methods, bodies, fs) ==
    \/ \E r \in Replicas, hdr \in hdrs, path \in paths, body \in bodies,
          fail \in RegisterFails \cap fs : PostInitialize(r, hdr, path, body, fail)
    \/ \E hdr \in hdrs, path \in paths, method \in methods, body \in bodies,
          name \in ToolNames, fail \in GetFails \cap fs :
          PostOther(hdr, path, method, body, name, fail)
    \/ \E r \in Replicas, hdr \in hdrs, fail \in UnregisterFails \cap fs :
          Delete(r, hdr, fail)
    \/ \E k \in Readers, r \in Replicas, accept \in BOOLEAN, hdr \in hdrs,
          fail \in GetFails \cap fs : GetSSE(k, r, accept, hdr, fail)
    \/ \E k \in Readers : SSELoop(k)
    \/ \E k \in Readers : Disconnect(k)
    \/ \E r \in Replicas : Subscriber(r)
    \/ Return

\* Send on a connection a replica's map holds, for at most n messages a run.
SendNext(events, fs, n) ==
    /\ sent < n
    /\ \E r \in Replicas, i \in Ids, ev \in events, fail \in SendFails \cap fs :
          SendMsg(connections[r][i].meta, ev, fail)

\* The session and streaming plane of one gateway on one mount path, with
\* Redis errors; the process is up throughout.
Next ==
    \/ SessionNext(HdrIds, {<<"/mcp">>}, {"tools/list", "unknown"}, {"ok", "badparams"}, AnyFail)
    \/ SendNext({"message"}, AnyFail, MaxSend)

Spec == Init /\ [][Next]_vars

\* The same plane with a Redis that answers, under the scheduling the Go
\* runtime gives: a goroutine that can take a step does take it.  Clients
\* are under no obligation to send requests or to go away.
FairNext ==
    SessionNext(HdrIds, {<<"/mcp">>}, {"tools/list"}, {"ok"}, {"none"})

FairSpec ==
    /\ Init
    /\ [][FairNext]_vars
    /\ SF_vars(\E k \in Readers : SSELoop(k))
    /\ SF_vars(\E r \in Replicas : Subscriber(r))
    /\ WF_vars(Return)

\* What the supervisor of replica 1 and its environment do: changes of the
\* stored configuration, reloads by notifier tick or POST /_reload, the
\* signals, the two reads of a tools/call, and requests that find no listener.
SupervisorNext ==
    \/ ConfigChange
    \/ \E trigger \in Triggers, outcome \in LoadOutcomes :
          ReloadLoad(trigger, outcome)
    \/ \E outcome \in BuildOutcomes : ReloadBuild(outcome)
    \/ ReloadShutdownBegin
    \/ ReloadShutdownDone
    \/ ReloadShutdownTimeout
    \/ SigHup
    \/ Quit
    \/ \E argsOK \in BOOLEAN : CallLookup(argsOK)
    \/ \E execOK \in BOOLEAN : CallExecute(execOK)
    \/ Refused("POST", "s1", "tools/list")

\* One gateway with its supervisor, on every mount path, with a Redis that
\* answers and clients that carry the id of one session.
NextReload ==
    \/ SessionNext({"s1"}, Paths, {"tools/list", "tools/call"}, {"ok"}, {"none"})
    \/ SupervisorNext

SpecReload == Init /\ [][NextReload]_vars

\* The supervisor of replica 1 with both listeners: the notifier's ticks,
\* the POST /_reload requests of the admin clients, the reloads with every
\* outcome, SIGINT or SIGTERM, and one session whose stream is attached and
\* left.
NextSupervisor ==
    \/ PostInitialize(1, "s1", <<"/mcp">>, "ok", "none")
    \/ \E k \in Readers : GetSSE(k, 1, TRUE, "s1", "none")
    \/ \E k \in Readers : SSELoop(k)
    \/ \E k \in Readers : Disconnect(k)
    \/ Subscriber(1)
    \/ Return
    \/ \E a \in Admins : ReloadPost(a)
    \/ \E a \in Admins : ReloadPostAnswer(a)
    \/ \E trigger \in Triggers, outcome \in LoadOutcomes : ReloadLoad(trigger, outcome)
    \/ \E outcome \in BuildOutcomes : ReloadBuild(outcome)
    \/ ReloadShutdownBegin
    \/ ReloadShutdownDone
    \/ ReloadShutdownTimeout
    \/ Quit

SpecSupervisor == Init /\ [][NextSupervisor]_vars

\* The same supervisor under the scheduling the Go runtime gives: the drain
\* loops, the subscriber, the handlers and the steps of handleReload go on
\* when they can.  Clients are under no obligation to send requests or to
\* go away, and nobody has to send a signal.
FairSupervisor ==
    /\ Init
    /\ [][NextSupervisor]_vars
    /\ \A k \in Readers : SF_vars(SSELoop(k))
    /\ SF_vars(Subscriber(1))
    /\ WF_vars(Return)
    /\ SF_vars(\E outcome \in BuildOutcomes : ReloadBuild(outcome))
    /\ SF_vars(ReloadShutdownBegin)
    /\ SF_vars(ReloadShutdownDone)
    /\ SF_vars(ReloadShutdownTimeout)

\* Two replicas on the shared store, with a Redis that answers: sessions
\* are registered and unregistered on either, events are sent on the
\* connections either holds, and each replica's subscriber handles the topic.
NextPeers ==
    \/ PeerStart
    \/ \E r \in Replicas, hdr \in Ids : PostInitialize(r, hdr, <<"/mcp">>, "ok", "none")
    \/ \E r \in Replicas, hdr \in Ids : Delete(r, hdr, "none")
    \/ \E r \in Replicas : Subscriber(r)
    \/ SendNext({"message"}, {"none"}, MaxSend)
    \/ Return

SpecPeers == Init /\ [][NextPeers]_vars

\* One gateway on a topic that other clients publish to: its own creates
\* and events, and the foreign payloads.
NextTopic ==
    \/ \E hdr \in Ids : PostInitialize(1, hdr, <<"/mcp">>, "ok", "none")
    \/ SendNext({"message"}, {"none"}, MaxSend)
    \/ \E update \in ForeignPayloads : ForeignPublish(update)
    \/ Subscriber(1)
    \/ SubscriberPanic(1)
    \/ Return

SpecTopic == Init /\ [][NextTopic]_vars

\* The POST and DELETE plane of one gateway on the shared store, with a
\* Redis that answers and a configuration that stays: the requests on every
\* mount path, with and without a session header, and the tools/call reads.
NextTools ==
    \/ \E hdr \in HdrIds, path \in Paths, body \in {"ok", "badparams"} :
          PostInitialize(1, hdr, path, body, "none")
    \/ \E hdr \in HdrIds, path \in Paths, body \in {"ok", "badparams"},
          method \in OtherMethods,
          name \in ToolNames : PostOther(hdr, path, method, body, name, "none")
    \/ \E hdr \in HdrIds : Delete(1, hdr, "none")
    \/ \E argsOK \in BOOLEAN : CallLookup(argsOK)
    \/ \E execOK \in BOOLEAN : CallExecute(execOK)
    \/ Subscriber(1)
    \/ Return

SpecTools == Init /\ [][NextTools]_vars

\* The streaming plane of one gateway with either session store and a Redis
\* that answers: sessions are registered, streams attached and left, and
\* events of both kinds sent on the sessions' connections.
NextStores ==
    \/ \E hdr \in Ids : PostInitialize(1, hdr, <<"/mcp">>, "ok", "none")
    \/ \E k \in Readers, hdr \in Ids : GetSSE(k, 1, TRUE, hdr, "none")
    \/ \E k \in Readers : SSELoop(k)
    \/ \E k \in Readers : Disconnect(k)
    \/ Subscriber(1)
    \/ SendNext(Events, {"none"}, MaxBurst)
    \/ Return

SpecStores == InitStores /\ [][NextStores]_vars

\* ------------------------------------------------------------------ claims

\* C1: Register with the id of a live session returns the existing
\* connection and does not reset its queue: across a successful initialize
\* for an id that is live and has a connection on the replica, the queue of
\* the id's connection holds the same messages after the call as before it.
C1_RegisterKeepsQueue ==
    [][\A r \in Replicas, i \in Ids :
          (/\ last = NoRequest
           /\ last'.op = "POST" /\ last'.method = "initialize"
           /\ last'.r = r /\ last'.id = i /\ last'.err = "nil"
           /\ i \in ids /\ connections[r][i] # NoConn)
          => queue'[connections'[r][i].q] = queue[connections[r][i].q]]_vars

\* C2: the queue an attached SSE handler reads is the queue into which the
\* subscriber of its replica pushes the events of its session, so that a
\* message sent for the session reaches the stream.
C2_SSEReadsSubscriberQueue ==
    \A k \in Readers :
        sse[k].pc = "drain" => connections[sse[k].r][sse[k].id].q = sse[k].q

\* C3: once an id is unregistered with success, and until Register puts it
\* into the set again, every Get of it fails - with NotFound, or with the
\* Redis client's error when the store call itself fails - and every GET SSE
\* request carrying it is answered 404.
C3_DeletedIsNotFound ==
    (last.gone /\ last.op \in {"GET", "POST"} /\ last.method # "initialize"
               /\ last.err \notin {"-", "refused"})
        => /\ last.err \in {"NotFound", "StoreErr"}
           /\ last.op = "GET" => last.http = <<404>>

\* C3, witness: a GET SSE for an unregistered id was answered 404 with
\* NotFound from the store.
C3_Witness ==
    /\ last.gone /\ last.op = "GET"
    /\ last.err = "NotFound" /\ last.http = <<404>>

\* C4: a second Unregister of an id, with no Register in between, succeeds:
\* when Redis answers, a DELETE for an id that stands unregistered returns
\* no error and is answered 200.
C4_UnregisterIdempotent ==
    (last.op = "DELETE" /\ last.gone /\ last.err # "StoreErr")
        => last.err = "nil" /\ last.http = <<200>>

\* C5: when a session is unregistered while a drain loop is attached to it,
\* the loop observes the end of the stream and exits.
C5_DrainExitsOnUnregister ==
    \A k \in Readers :
        (sse[k].pc = "drain" /\ sse[k].id \in deleted) ~> (sse[k].pc # "drain")

\* C6: a reload whose load or merge of the configuration documents fails is
\* only logged: the step in which it fails leaves the process running and
\* the dispatch tables and the public listener as they were.
C6_LoadFailureKeepsServing ==
    [][(reloads' # reloads /\ lastReload' = "fatal")
          => /\ proc' = "running"
             /\ tables' = tables
             /\ httpServer' = httpServer]_vars

\* C7: once handleReload has returned from a reload that merged and
\* installed its configuration, whether the old server shut down in time or
\* not, the public server listens with the router of the new configuration.
C7_NewServerListens ==
    (proc = "running" /\ rl.pc = "idle" /\ lastReload \in {"ok", "shutdownErr"})
        => httpServer = [router |-> tables.toolMap, state |-> "serving"]

\* C8: a SIGHUP delivered to the running gateway makes it reload and leaves
\* it running: the signal never ends the process.
C8_SighupKeepsRunning == proc # "killed"

\* C9: the tables one request reads come from one snapshot: no response is
\* computed from two different configurations.
C9_OneSnapshotPerRequest == Cardinality(last.snap) <= 1

\* C10: every session live when a reload began, and not unregistered since,
\* is live once the reload has completed, and a tools/list POST carrying its
\* id then succeeds.
C10_SessionsSurviveReload ==
    (proc = "running" /\ rl.pc = "idle" /\ lastReload \in {"ok", "shutdownErr"})
        => /\ liveAtReload \subseteq ids
           /\ (last.op = "POST" /\ last.method = "tools/list" /\ last.id \in liveAtReload)
                 => last.err = "nil" /\ last.http = <<200>>

\* C11: a tools/call naming a tool that the snapshot holds but that the
\* prefix of the session does not allow is rejected with MethodNotFound and
\* the tool is not executed: the step that answers such a call, once its
\* lookup in the tool table has succeeded, answers MethodNotFound and has
\* not run executeTool.
C11_ToolScopedByPrefix ==
    [][(/\ call.pc = "config" /\ call'.pc = "idle" /\ last' # NoRequest
        /\ call.name \in CfgTools(call.toolVer)
        /\ call.name \notin CfgAllowed(call.toolVer, call.prefix))
          => last'.code = "MethodNotFound" /\ last'.exec = "-"]_vars

\* C12: a failure of executeTool is never reported as a JSON-RPC error: the
\* reply is a successful result (HTTP 200, no error code) with isError true;
\* params or arguments that do not unmarshal are reported as the JSON-RPC
\* error InvalidParams and the tool is not executed.
C12_ExecErrorsAreResults ==
    /\ last.exec = "failed"
          => last.code = None /\ last.http = <<200>> /\ last.isError
    /\ (last.method = "tools/call" /\ last.bad # "-")
          => last.code = "InvalidParams" /\ last.http = <<400>> /\ last.exec = "-"
    /\ last.exec = "ok" => ~last.isError

\* C12, witness: a tools/call whose tool failed was answered with a result
\* holding isError true.
C12_Witness ==
    /\ last.method = "tools/call" /\ last.exec = "failed"
    /\ last.isError /\ last.http = <<200>>

\* C13: every accepted POST with a method other than initialize is answered
\* with the Mcp-Session-Id the request carried, and the store holds a live
\* session with that id (for a tools/call, whose answer can come after a
\* DELETE of the session, only the header is required).
C13_AcceptedPostEchoesSession ==
    (/\ last.op = "POST" /\ last.method \notin {None, "initialize"}
     /\ last.http \in {<<200>>, <<202>>})
        => /\ last.sid = last.hdr
           /\ last.method # "tools/call" => last.hdr \in ids /\ kv[last.hdr] # NoMeta

\* C14: an initialize POST without a session header that is answered 200
\* has registered a session under an id nothing knew, with the prefix that
\* is the URL path without its trailing /mcp ("/" when nothing is left), and
\* returns that id in Mcp-Session-Id; and a tools/list POST carrying the id
\* of a live session is accepted.
C14_InitializeWithoutHeader ==
    [][/\ (/\ last = NoRequest
           /\ last'.op = "POST" /\ last'.method = "initialize"
           /\ last'.hdr = "" /\ last'.http = <<200>>)
             => /\ last'.id \notin ids /\ kv[last'.id] = NoMeta
                /\ last'.id \in ids'
                /\ kv'[last'.id] =
                     [ID |-> last'.id,
                      Prefix |-> IF Len(last'.path) = 1
                                 THEN <<"/">>
                                 ELSE SubSeq(last'.path, 1, Len(last'.path) - 1),
                      Type |-> "streamable"]
                /\ last'.sid = last'.id
       /\ (/\ last = NoRequest
           /\ last'.op = "POST" /\ last'.method = "tools/list"
           /\ last'.hdr \in ids /\ kv[last'.hdr] # NoMeta)
             => last'.http = <<200>> /\ last'.err = "nil"]_vars

\* C14, witness: an initialize without header on /a/mcp was answered 200 and
\* the session it names is stored with prefix /a.
C14_Witness ==
    /\ last.method = "initialize" /\ last.hdr = "" /\ last.http = <<200>>
    /\ last.path = <<"/a", "/mcp">>
    /\ last.sid = last.id /\ last.id \in ids
    /\ kv[last.id].Prefix = <<"/a">>

\* C15: a POST with a method other than initialize and without a session
\* header is answered InvalidRequest with HTTP 400; the method is not
\* dispatched (no tools/call starts, no tool runs) and the store is left as
\* it was.
C15_NoHeaderIsInvalidRequest ==
    [][/\ (/\ last = NoRequest
           /\ last'.op = "POST" /\ last'.hdr = ""
           /\ last'.method \notin {None, "initialize"}
           /\ last'.code # "ParseError")
             => /\ last'.code = "InvalidRequest" /\ last'.http = <<400>>
                /\ last'.exec = "-" /\ last'.snap = {}
                /\ kv' = kv /\ ids' = ids /\ connections' = connections
       /\ (call.pc = "idle" /\ call'.pc # "idle") => call'.hdr # ""]_vars

\* C15, witness: a tools/list POST without header was answered
\* InvalidRequest with 400.
C15_Witness ==
    /\ last.op = "POST" /\ last.hdr = "" /\ last.method = "tools/list"
    /\ last.code = "InvalidRequest" /\ last.http = <<400>>

\* C16: the stored meta of a session never changes while the session is
\* live: no step replaces the meta of an id that is in the set before and
\* after it, and an initialize that names a live id with another meta is
\* not answered as a success.
C16_MetaImmutable ==
    [][/\ \A i \in Ids :
            (i \in ids /\ kv[i] # NoMeta /\ i \in ids') => kv'[i] = kv[i]
       /\ (/\ last = NoRequest /\ last'.method = "initialize"
           /\ last'.hdr \in ids /\ kv[last'.hdr] # NoMeta
           /\ kv[last'.hdr].Prefix # PrefixOf(last'.path))
             => last'.http # <<200>>]_vars

\* C17: for every message it takes from the queue the drain loop writes one
\* formatted frame and nothing else: all that a stream carries is formatted
\* frames, no two of them for the same message.
C17_OneFramePerMessage ==
    \A k \in Readers :
        /\ \A j \in 1..Len(out[k]) : out[k][j].kind = "frame"
        /\ \A i, j \in 1..Len(out[k]) : out[k][i].msg = out[k][j].msg => i = j

\* The formatted frames among what a stream carries, as the messages they hold.
FramesOf(stream) ==
    LET frames == SelectSeq(stream, LAMBDA w : w.kind = "frame")
    IN  [j \in 1..Len(frames) |-> frames[j].msg]

\* Messages in the order in which they were sent, none twice (Send numbers
\* the messages in Data).
InSendOrder(msgs) ==
    \A i, j \in 1..Len(msgs) : i < j => msgs[i].Data < msgs[j].Data

\* C18: the events pushed to a queue are delivered in push order, without
\* reordering or duplication: every queue holds its messages in the order
\* they were sent, the frames of a stream are in that order, and what a
\* stream has still to take was sent after all it has written.
C18_DeliveredInPushOrder ==
    /\ \A c \in ConnNums : InSendOrder(queue[c])
    /\ \A k \in Readers :
          sse[k].pc = "drain" => InSendOrder(FramesOf(out[k]) \o queue[sse[k].q])

\* C18, witness: a stream has written the frames of two messages.
C18_Witness ==
    \E k \in Readers : sse[k].pc = "drain" /\ Len(FramesOf(out[k])) >= 2

\* C19: a queue never holds more than its capacity; an event that arrives
\* for a full queue is dropped with a warning, the queued messages stay as
\* they are and the session stays live; an event that arrives for a queue
\* with room is put behind the messages already queued.
C19_FullQueueDropsNewest ==
    [][/\ \A c \in ConnNums : Len(queue'[c]) <= QueueCap
       /\ dropped' # dropped
             => /\ dropped' = dropped + 1
                /\ queue' = queue /\ connections' = connections
                /\ ids' = ids /\ kv' = kv
       /\ (/\ store = "redis" /\ chan[1] # <<>> /\ chan'[1] = Tail(chan[1])
           /\ Head(chan[1]).Action = "event"
           /\ connections[1][Head(chan[1]).Meta.ID] # NoConn)
             => LET q == connections[1][Head(chan[1]).Meta.ID].q
                IN  IF Len(queue[q]) = QueueCap
                    THEN dropped' = dropped + 1
                    ELSE queue'[q] = Append(queue[q], Head(chan[1]).Message)]_vars

\* C19, witness: an event was dropped at a full queue of a live session.
C19_Witness ==
    /\ dropped > 0
    /\ \E i \in ids : /\ connections[1][i] # NoConn
                      /\ Len(queue[connections[1][i].q]) = QueueCap

\* C20: a push to a session queue never blocks the pusher: whatever the
\* queues hold, a Send on a live connection can return (on the shared store
\* once the topic takes the payload) and the subscriber can handle the
\* payload at the head of its subscription, so that it goes on to the
\* payloads behind it.
C20_PushNeverBlocks ==
    Quiet =>
       /\ (Alive(1) /\ chan[1] # <<>>) => ENABLED Subscriber(1)
       /\ \A i \in Ids :
             (connections[1][i] # NoConn /\ (store = "redis" => ChanRoom))
                => ENABLED SendMsg(connections[1][i].meta, "message", "none")

\* C20, witness: on the shared store, with the queue of one session full and
\* an event dropped there, a message sent later is in the queue of another
\* session.
C20_Witness ==
    /\ store = "redis" /\ dropped > 0
    /\ \E i, j \in Ids :
          /\ i # j /\ connections[1][i] # NoConn /\ connections[1][j] # NoConn
          /\ Len(queue[connections[1][i].q]) = QueueCap
          /\ queue[connections[1][j].q] # <<>>
          /\ \A m \in 1..QueueCap :
                queue[connections[1][i].q][m].Data < Head(queue[connections[1][j].q]).Data - 1

\* C21: on a live session a tools/call whose name the tool table does not
\* hold is answered MethodNotFound with HTTP 404 by the step that looks the
\* name up, which ends the call before any tool runs; and a request with a
\* method outside initialize, notifications/initialized, tools/list and
\* tools/call is answered MethodNotFound with HTTP 404.
C21_UnknownIsMethodNotFound ==
    [][/\ (/\ call.pc = "lookup" /\ call' # call
           /\ call.name \notin CfgTools(tables.toolMap))
             => /\ call'.pc = "idle"
                /\ last'.code = "MethodNotFound" /\ last'.http = <<404>>
                /\ last'.exec = "-"
       /\ (/\ last = NoRequest /\ last'.op = "POST" /\ last'.method = "unknown"
           /\ last'.hdr \in ids /\ kv[last'.hdr] # NoMeta)
             => /\ last'.code = "MethodNotFound" /\ last'.http = <<404>>
                /\ last'.exec = "-" /\ call' = call]_vars

\* C21, witness: a tools/call on a live session was answered MethodNotFound
\* with 404 and ran no tool.
C21_Witness ==
    /\ last.op = "POST" /\ last.method = "tools/call" /\ last.err = "nil"
    /\ last.code = "MethodNotFound" /\ last.http = <<404>> /\ last.exec = "-"

\* C27: a GET is validated before it streams: one without Accept:
\* text/event-stream is answered 406 and one without Mcp-Session-Id 400, in
\* both cases with that one error response, without a call of the session
\* store and without entering the drain loop.
C27_GetValidatedBeforeStore ==
    [][(last = NoRequest /\ last'.op = "GET"
           /\ (last'.hdr = "" \/ 406 \in {last'.http[j] : j \in 1..Len(last'.http)}))
          => /\ last'.http \in {<<406>>, <<400>>}
             /\ last'.err = "-"
             /\ sse' = sse]_vars

\* C28: a request whose Mcp-Session-Id names no live session - a POST with
\* a method other than initialize, a DELETE, a GET for a stream - is
\* answered with HTTP 404 when the store reports NotFound.
C28_UnknownSessionIs404 ==
    (last.hdr # "" /\ last.err = "NotFound") => last.http = <<404>>

C26_PidFileRemovedOnExit ==
    proc \in {"stopped", "exited"} => ~pidFile

\* C22: a tools/list on a live session is answered with the tools the
\* installed configuration allows on the session's prefix, in its order, also
\* once a reload has returned; and the answer for a prefix changes with no
\* step but the installation of a configuration by a reload, and not with
\* that one when the merged configuration leaves the prefix as it was.
C22_ToolsListStableAcrossReload ==
    [][/\ (/\ last = NoRequest
           /\ last'.op = "POST" /\ last'.method = "tools/list"
           /\ last'.hdr \in ids /\ kv[last'.hdr] # NoMeta
           /\ proc = "running" /\ rl.pc = "idle" /\ reloads > 0)
             => /\ last'.http = <<200>>
                /\ last'.tools =
                     IF kv[last'.hdr].Prefix \in CfgPrefixes(tables.prefixToTools)
                     THEN CfgToolList(tables.prefixToTools, kv[last'.hdr].Prefix)
                     ELSE <<>>
       /\ \A path \in Paths :
             ((rl.pc = "merged" /\ rl'.pc = "updated")
                 => (/\ PrefixOf(path) \in CfgPrefixes(rl.newCfg)
                        <=> PrefixOf(path) \in CfgPrefixes(tables.prefixToTools)
                     /\ CfgToolList(rl.newCfg, PrefixOf(path))
                           = CfgToolList(tables.prefixToTools, PrefixOf(path))))
                => ListTools(PrefixOf(path))' = ListTools(PrefixOf(path))]_vars

\* C22 without the requests that find no listener: what an answered
\* tools/list holds, and which steps change it.
C22_AnsweredToolsList ==
    [][/\ (/\ last = NoRequest
           /\ last'.op = "POST" /\ last'.method = "tools/list"
           /\ last'.http = <<200>>)
             => last'.tools =
                     IF kv[last'.hdr].Prefix \in CfgPrefixes(tables.prefixToTools)
                     THEN CfgToolList(tables.prefixToTools, kv[last'.hdr].Prefix)
                     ELSE <<>>
       /\ \A path \in Paths :
             ((rl.pc = "merged" /\ rl'.pc = "updated")
                 => (/\ PrefixOf(path) \in CfgPrefixes(rl.newCfg)
                        <=> PrefixOf(path) \in CfgPrefixes(tables.prefixToTools)
                     /\ CfgToolList(rl.newCfg, PrefixOf(path))
                           = CfgToolList(tables.prefixToTools, PrefixOf(path))))
                => ListTools(PrefixOf(path))' = ListTools(PrefixOf(path))]_vars

\* C23: at most one reload runs at a time: a trigger, notifier tick or
\* POST /_reload, is taken only when no handleReload is running, and the
\* steps of the reload that runs follow one another - merge, build and
\* update, shutdown of the old server, start of the new one - on the
\* configuration it merged, until it returns.
C23_OneReloadAtATime ==
    [][/\ reloads' # reloads => rl.pc = "idle" /\ reloads' = reloads + 1
       /\ rl'.pc # rl.pc
             => <<rl.pc, rl'.pc>> \in {<<"idle", "merged">>, <<"merged", "updated">>,
                                       <<"merged", "idle">>, <<"updated", "closing">>,
                                       <<"closing", "idle">>}
       /\ (rl.pc # "idle" /\ rl'.pc # "idle") => rl'.newCfg = rl.newCfg
       /\ (rl.pc = "idle" /\ rl'.pc # "idle") => reloads' = reloads + 1]_vars

\* C23, witness: a second reload, triggered by a POST /_reload, has begun
\* after the first one returned.
C23_Witness ==
    /\ reloads = 2 /\ rl.pc = "merged"
    /\ \E a \in Admins : post[a] = "accepted"

\* C24: a POST /_reload is answered 200 only after run's loop has taken its
\* send, and the step that takes it starts one run of handleReload; a POST
\* that arrives while a reload runs waits: it is neither answered nor
\* dropped until the loop takes it.
C24_AnsweredReloadWasAccepted ==
    [][\A a \in Admins :
          /\ (post'[a] = "answered" /\ post[a] # "answered") => post[a] = "accepted"
          /\ (post'[a] = "accepted" /\ post[a] # "accepted")
                => /\ post[a] = "sending" /\ rl.pc = "idle"
                   /\ reloads' = reloads + 1 /\ rl'.pc = "merged"
                   /\ \A b \in Admins \ {a} : post'[b] = post[b]
          /\ (post[a] = "sending" /\ proc' = "running")
                => post'[a] \in {"sending", "accepted"}
          /\ (post[a] = "sending" /\ rl.pc # "idle" /\ proc' = "running")
                => post'[a] = "sending"]_vars

\* C24, witness: one POST /_reload has been answered after run's loop took
\* it, and another, which arrived since, waits while a reload shuts the old
\* server down.
C24_Witness ==
    /\ reloads >= 1 /\ rl.pc = "closing"
    /\ \E a, b \in Admins : post[a] = "answered" /\ post[b] = "sending"

\* C25: on SIGINT or SIGTERM both listeners are shut down, the internal one
\* also when the shutdown of the public one failed, each with a grace window
\* of its own - the internal listener's Shutdown is given a context that is
\* not yet done - and run returns.
C25_ShutdownGracePerListener ==
    proc = "stopped"
        => /\ shutdown.public \in {"ok", "timeout"}
           /\ shutdown.inner \in {"ok", "err"}
           /\ shutdown.innerCtx = "live"

\* The calls a backend client may have received, from its construction on,
\* in the three ways an invocation can go.
ClientLives ==
    {<<"NewClient", "Initialize", "CallTool", "Close">>,
     <<"NewClient", "Initialize", "CallToolErr", "Close">>,
     <<"NewClient", "InitializeErr", "Close">>}

\* C30: every streamable tool invocation has a backend client of its own,
\* which receives Initialize, then CallTool only when Initialize succeeded,
\* then Close, and nothing after Close; a client whose invocation has
\* returned is closed, whether Initialize or CallTool failed or not.
C30_FreshClientInitCallClose ==
    /\ \A c \in 1..MaxClients :
          /\ \E life \in ClientLives :
                Len(clients[c]) <= Len(life) /\ clients[c] = SubSeq(life, 1, Len(clients[c]))
          /\ (clients[c] # <<>> /\ \A n \in Invokers : inv[n].client # c)
                => clients[c] \in ClientLives
    /\ \A n, m \in Invokers :
          (n # m /\ inv[n].client # 0) => inv[n].client # inv[m].client

\* C30, witness: one client was closed after its Initialize failed, another
\* after its CallTool failed, and a third is in use.
C30_Witness ==
    \E c, d, f \in 1..MaxClients :
        /\ clients[c] = <<"NewClient", "InitializeErr", "Close">>
        /\ clients[d] = <<"NewClient", "Initialize", "CallToolErr", "Close">>
        /\ \E n \in Invokers : inv[n].client = f /\ clients[f] = <<"NewClient", "Initialize">>

\* C32: a Register that fails, at whichever of its steps, is answered
\* InternalError and leaves the store as it was before the call: the key, the
\* id set and the connection maps are unchanged.
C32_FailedRegisterLeavesNoTrace ==
    [][(/\ last = NoRequest
        /\ last'.op = "POST" /\ last'.method = "initialize"
        /\ last'.err = "StoreErr")
          => /\ last'.code = "InternalError"
             /\ kv' = kv /\ ids' = ids /\ connections' = connections]_vars

\* C33: between the calls of the shared store the key and the id set agree:
\* an id is in session:ids exactly when the key session:<id> holds a meta.
C33_SetAgreesWithKeys ==
    \A i \in Ids : i \in ids <=> kv[i] # NoMeta

\* C38: an Unregister that returns an error - NotFound or the error of a
\* store operation - leaves the key, the id set and the connection maps as
\* they were before the call.
C38_FailedUnregisterChangesNothing ==
    [][(/\ last = NoRequest
        /\ last'.op = "DELETE" /\ last'.err \in {"NotFound", "StoreErr"})
          => kv' = kv /\ ids' = ids /\ connections' = connections]_vars

\* C35: once handleReload has returned, however it ended, a public server
\* listens, and its router and the three dispatch tables of the Server were
\* built from the same merged configuration - the old one when the reload
\* gave up.
C35_RouterAndTablesAgree ==
    (proc = "running" /\ rl.pc = "idle")
        => /\ httpServer.state = "serving"
           /\ tables = [prefixToTools        |-> httpServer.router,
                        toolMap              |-> httpServer.router,
                        prefixToServerConfig |-> httpServer.router]

\* C36: what selects the tool list of a tools/list and the server config of
\* a tools/call is the prefix stored with the session, not the URL path of
\* the request: a tools/list is answered with the list of the stored prefix,
\* a tools/call starts with the stored prefix, and its read of the server
\* config table fails exactly when the table has no entry for that prefix.
C36_StoredPrefixSelects ==
    [][/\ (/\ last = NoRequest
           /\ last'.op = "POST" /\ last'.method = "tools/list" /\ last'.http = <<200>>)
             => last'.tools =
                  IF kv[last'.id].Prefix \in CfgPrefixes(tables.prefixToTools)
                  THEN CfgToolList(tables.prefixToTools, kv[last'.id].Prefix)
                  ELSE <<>>
       /\ (call.pc = "idle" /\ call'.pc = "lookup")
             => call'.prefix = kv[call'.id].Prefix
       /\ (call.pc = "config" /\ call'.pc = "idle" /\ last' # NoRequest)
             => (last'.http = <<500>>
                   <=> call.prefix \notin CfgPrefixes(tables.prefixToServerConfig))]_vars

\* C36, witness: a session stored with prefix /a asked for its tools on the
\* path /mcp of prefix / and was answered with the list of /a, which differs
\* from the list of /.
C36_Witness ==
    /\ last.op = "POST" /\ last.method = "tools/list" /\ last.http = <<200>>
    /\ last.path = <<"/mcp">> /\ kv[last.id].Prefix = <<"/a">>
    /\ last.tools = CfgToolList(tables.prefixToTools, <<"/a">>)
    /\ last.tools # CfgToolList(tables.prefixToTools, <<"/">>)

\* C34: once a session is unregistered and the replicas have handled the
\* topic, no replica keeps a local connection entry for its id; and no
\* subscriber queues an event for an id that stands unregistered.
C34_UnregisteredEverywhere ==
    [][/\ \A r \in Replicas, i \in deleted :
             (Alive(r) /\ chan[r] = <<>>) => connections[r][i] = NoConn
       /\ \A r \in Replicas :
             (/\ chan[r] # <<>> /\ chan'[r] = Tail(chan[r])
              /\ Head(chan[r]).Action = "event"
              /\ Head(chan[r]).Meta.ID \in deleted)
                => queue' = queue]_vars

\* C37: the subscriber keeps running whatever payload it receives: the step
\* that takes a payload from a replica's subscription - valid or not, with
\* or without meta and message - leaves the replica running, so that it
\* handles the payloads that follow.
C37_SubscriberSurvivesPayloads ==
    [][\A r \in Replicas :
          (Alive(r) /\ chan[r] # <<>> /\ chan'[r] # chan[r]
              /\ Len(chan'[r]) < Len(chan[r]))
             => Alive(r)']_vars

\* C31: an attached drain loop exits once its request context is cancelled,
\* and once the supervisor has started to shut its server down, on a signal
\* or during a reload.
C31_DrainLoopsExit ==
    \A k \in Readers :
       (/\ sse[k].pc = "drain"
        /\ \/ sse[k].ctxDone
           \/ httpServer.state \in {"closing", "closed"}
           \/ proc # "running")
          ~> (sse[k].pc # "drain")

\* The half of C31 that the drain loop does keep: the cancelled context.
C31_ExitsOnCancel ==
    \A k \in Readers :
       (sse[k].pc = "drain" /\ sse[k].ctxDone) ~> (sse[k].pc # "drain")

====
